---- MODULE Spec2Model ----
(***************************************************************************)
(* Dataset lifecycle manager (dataset_manager.py): the on-disk layout of   *)
(* one dataset root, the four phases clean / download / extract / process  *)
(* of each profile, and the dispatcher main.                               *)
(*                                                                         *)
(* A path is a sequence of components relative to datasets_path / name.    *)
(* The filesystem is a record [dirs, files]: the set of directories and a  *)
(* function from file paths to contents.                                   *)
(***************************************************************************)
EXTENDS Integers, Sequences, FiniteSets, TLC

\* ------------------------------------------------------------------ bounds
MaxFiles == 3      \* sample files initially present in the extracted directory
MaxRuns == 2       \* invocations of main on the same dataset root
MaxBlobs == 2      \* files one cloud download or one manual copy brings in

\* --------------------------------------------------------------- constants
NoneV == "None"
Registry == {"SLEIPNIR", "VirusShare", "Sorel", "Windows"}
DatasetArgs == Registry \cup {"Bogus"}
VersionArgs == {NoneV, "v1"}
\* main calling download before clean
PhaseOrder_download_first == <<"download", "clean", "extract", "process">>
PhaseOrder == <<"clean", "download", "extract", "process">>
Phases == {"clean", "download", "extract", "process"}
Categories == <<"benign", "malicious">>

NamePool == <<"a.bin", "b.bin", "c.bin", "d.bin", "e.bin">>
BlobPool == <<"00a", "00b", "00c", "00d">>

\* ------------------------------------------------------- path construction
downloads_path == <<"downloads">>
processed_path == <<"processed">>
extracted_path(ds, ver) ==
  IF ds = "VirusShare" THEN <<"extracted", ver>> ELSE <<"extracted">>

Parent(p) == SubSeq(p, 1, Len(p) - 1)
Name(p) == p[Len(p)]
IsPrefix(p, q) == Len(p) <= Len(q) /\ SubSeq(q, 1, Len(p)) = p
Prefixes(p) == {SubSeq(p, 1, i) : i \in 0..Len(p)}

\* ---------------------------------------------------- filesystem primitives
\* Every primitive returns [fs, err, w]: the filesystem after it, the
\* exception it raised ("none" if it returned) and the write attempts it made,
\* each as [dir, existed]: the directory written into and whether that
\* directory existed when the write was attempted.
Ok(fs) == [fs |-> fs, err |-> "none", w |-> {}]
Raise(fs, e) == [fs |-> fs, err |-> e, w |-> {}]
Wrote(r, d, fs0) == [r EXCEPT !.w = @ \cup {[dir |-> d, existed |-> d \in fs0.dirs]}]

IsFile(fs, p) == p \in DOMAIN fs.files
Children(fs, p) ==
  {q \in fs.dirs \cup DOMAIN fs.files : Len(q) = Len(p) + 1 /\ Parent(q) = p}

PutFile(fs, p, c) ==
  [fs EXCEPT !.files = [q \in DOMAIN fs.files \cup {p} |-> IF q = p THEN c ELSE fs.files[q]]]
DropFile(fs, p) ==
  [fs EXCEPT !.files = [q \in DOMAIN fs.files \ {p} |-> fs.files[q]]]

\* Then: one statement after another, the second skipped when the first
\* raised; the write attempts of both are kept.
Then(r, F(_)) ==
  IF r.err # "none" THEN r
  ELSE LET s == F(r.fs) IN [fs |-> s.fs, err |-> s.err, w |-> r.w \cup s.w]

\* Path.mkdir(parents=..., exist_ok=...); the root's parent is datasets_path,
\* which is taken to exist.
Mkdir(fs, p, parents, exist_ok) ==
  IF p \in fs.dirs THEN (IF exist_ok THEN Ok(fs) ELSE Raise(fs, "FileExistsError"))
  ELSE IF IsFile(fs, p) THEN Raise(fs, "FileExistsError")
  ELSE IF Len(p) = 0 THEN Ok([fs EXCEPT !.dirs = @ \cup {p}])
  ELSE IF Parent(p) \in fs.dirs
    THEN Wrote(Ok([fs EXCEPT !.dirs = @ \cup {p}]), Parent(p), fs)
  ELSE IF parents
    THEN IF \E q \in Prefixes(p) : IsFile(fs, q)
           THEN Raise(fs, "NotADirectoryError")
           ELSE Ok([fs EXCEPT !.dirs = @ \cup Prefixes(p)])
  ELSE Wrote(Raise(fs, "FileNotFoundError"), Parent(p), fs)

\* shutil.rmtree(path)
Rmtree(fs, p) ==
  IF p \in fs.dirs
    THEN Ok([dirs |-> {q \in fs.dirs : ~IsPrefix(p, q)},
             files |-> [q \in {x \in DOMAIN fs.files : ~IsPrefix(p, x)} |-> fs.files[q]]])
  ELSE IF IsFile(fs, p) THEN Raise(fs, "NotADirectoryError")
  ELSE Raise(fs, "FileNotFoundError")

\* shutil.move in place of shutil.copy2: the source is gone afterwards
Copy2_moving(fs, src, dst) ==
  IF src \in fs.dirs THEN Raise(fs, "IsADirectoryError")
  ELSE IF ~IsFile(fs, src) THEN Raise(fs, "FileNotFoundError")
  ELSE IF dst \in fs.dirs /\ (dst \o <<Name(src)>>) \notin fs.dirs
    THEN Wrote(Ok(DropFile(PutFile(fs, dst \o <<Name(src)>>, fs.files[src]), src)), dst, fs)
  ELSE Wrote(Raise(fs, "FileNotFoundError"), Parent(dst), fs)

\* shutil.copy2(src, dst) with dst meant to be a directory
Copy2(fs, src, dst) ==
  IF src \in fs.dirs THEN Raise(fs, "IsADirectoryError")
  ELSE IF ~IsFile(fs, src) THEN Raise(fs, "FileNotFoundError")
  ELSE IF dst \in fs.dirs
    THEN IF (dst \o <<Name(src)>>) \in fs.dirs
           THEN Wrote(Raise(fs, "IsADirectoryError"), dst, fs)
           ELSE Wrote(Ok(PutFile(fs, dst \o <<Name(src)>>, fs.files[src])), dst, fs)
  ELSE IF Parent(dst) \in fs.dirs
    THEN Wrote(Ok(PutFile(fs, dst, fs.files[src])), Parent(dst), fs)
  ELSE Wrote(Raise(fs, "FileNotFoundError"), Parent(dst), fs)

\* The orders in which a directory listing or a shuffle can deliver a set.
Perms(S) ==
  {f \in [1..Cardinality(S) -> S] : \A i, j \in 1..Cardinality(S) : f[i] = f[j] => i = j}

\* ------------------------------------------------------ DatasetManager base
\* DatasetManager._setup
_setup(fs, ds, ver) ==
  LET r1 == Mkdir(fs, <<>>, TRUE, TRUE)
      r2 == Then(r1, LAMBDA f : Mkdir(f, downloads_path, TRUE, TRUE))
      r3 == Then(r2, LAMBDA f : Mkdir(f, extracted_path(ds, ver), TRUE, TRUE))
  IN Then(r3, LAMBDA f : Mkdir(f, processed_path, TRUE, TRUE))

\* _clean with the remove_download branch lost
_clean_keeping_downloads(fs, ds, ver, remove_download) ==
  Then(Rmtree(fs, extracted_path(ds, ver)), LAMBDA f : Rmtree(f, processed_path))

\* DatasetManager._clean
_clean(fs, ds, ver, remove_download) ==
  LET r1 == Rmtree(fs, extracted_path(ds, ver))
      r2 == Then(r1, LAMBDA f : Rmtree(f, processed_path))
  IN IF remove_download THEN Then(r2, LAMBDA f : Rmtree(f, downloads_path)) ELSE r2

\* sklearn's default sizes: test_size = 0.25, n_test = ceil(0.25 * n),
\* n_train = n - n_test; an empty train set raises ValueError.
NTest(n) == (n + 3) \div 4
NTrain(n) == n - NTest(n)

\* train_test_split(list): perm is the shuffle drawn for this call.
train_test_split(perm) ==
  LET n == Len(perm) IN
  IF n = 0 \/ NTrain(n) = 0
    THEN [err |-> "ValueError", train |-> <<>>, test |-> <<>>]
    ELSE [err |-> "none",
          train |-> SubSeq(perm, NTest(n) + 1, n),
          test |-> SubSeq(perm, 1, NTest(n))]

Min(a, b) == IF a <= b THEN a ELSE b

\* for f_train, f_test in zip(train, test): copy2(f_train, dtrain); copy2(f_test, dtest)
RECURSIVE CopyPairs(_, _, _, _, _, _)
CopyPairs(r, train, test, dtrain, dtest, i) ==
  IF r.err # "none" \/ i > Min(Len(train), Len(test)) THEN r
  ELSE LET r1 == Then(r, LAMBDA f : Copy2(f, train[i], dtrain))
           r2 == Then(r1, LAMBDA f : Copy2(f, test[i], dtest))
       IN CopyPairs(r2, train, test, dtrain, dtest, i + 1)

\* [f for f in path.iterdir()] followed by train_test_split and the copy loop
SplitInto(r, src, perm, dtrain, dtest) ==
  IF r.err # "none" THEN r
  ELSE IF src \notin r.fs.dirs
    THEN [r EXCEPT !.err = IF IsFile(r.fs, src) THEN "NotADirectoryError" ELSE "FileNotFoundError"]
  ELSE LET s == train_test_split(perm) IN
       IF s.err # "none" THEN [r EXCEPT !.err = s.err]
       ELSE CopyPairs(r, s.train, s.test, dtrain, dtest, 1)

\* DatasetManager._process_into_train_test_split
_process_into_train_test_split(fs, ds, ver, perm) ==
  LET dtrain == processed_path \o <<"train">>
      dtest == processed_path \o <<"test">>
      r1 == Mkdir(fs, dtrain, FALSE, TRUE)
      r2 == Then(r1, LAMBDA f : Mkdir(f, dtest, FALSE, TRUE))
  IN SplitInto(r2, extracted_path(ds, ver), perm, dtrain, dtest)

\* ------------------------------------------------------------------- Sorel
\* Contents of files; "zA"/"zB" are zlib streams of "A"/"B", "junk" is not a
\* zlib stream.
IsZlib(c) == c \in {"zA", "zB"}
Decompress(c) == IF c = "zA" THEN "A" ELSE "B"
BlobContent(i, bad) == IF i = bad THEN "junk" ELSE IF i % 2 = 1 THEN "zA" ELSE "zB"

\* What the cloud CLI leaves behind when it succeeds: it creates the target
\* directory and stores n objects in it, the bad-th of them damaged (0: none).
RECURSIVE StoreBlobs(_, _, _, _)
StoreBlobs(fs, n, bad, i) ==
  IF i > n THEN fs
  ELSE StoreBlobs(PutFile(fs, downloads_path \o <<BlobPool[i]>>, BlobContent(i, bad)), n, bad, i + 1)

\* Sorel.download: subprocess.run([...]) without check=True. outcome is what
\* the child process did: "ok" (exit 0), "nonzero" (exit status # 0, which
\* subprocess.run returns without raising), "noexec" (no aws executable).
Sorel_download(fs, outcome, n, bad) ==
  IF outcome = "noexec" THEN Raise(fs, "FileNotFoundError")
  ELSE IF outcome = "nonzero" THEN Ok(fs)
  ELSE IF \E q \in Prefixes(downloads_path) : IsFile(fs, q) THEN Ok(fs)
  ELSE Ok(StoreBlobs([fs EXCEPT !.dirs = @ \cup Prefixes(downloads_path)], n, bad, 1))

\* one iteration of Sorel.extract: read f, decompress, write extracted/f.name
Sorel_extract_one(fs, f, dst) ==
  IF f \in fs.dirs THEN Raise(fs, "IsADirectoryError")
  ELSE IF ~IsZlib(fs.files[f]) THEN Raise(fs, "zlib.error")
  ELSE IF Parent(dst) \notin fs.dirs THEN Wrote(Raise(fs, "FileNotFoundError"), Parent(dst), fs)
  ELSE IF dst \in fs.dirs THEN Wrote(Raise(fs, "IsADirectoryError"), Parent(dst), fs)
  ELSE Wrote(Ok(PutFile(fs, dst, Decompress(fs.files[f]))), Parent(dst), fs)

RECURSIVE Sorel_extract_loop(_, _, _, _)
Sorel_extract_loop(r, order, dstdir, i) ==
  IF r.err # "none" \/ i > Len(order) THEN r
  ELSE Sorel_extract_loop(
         Then(r, LAMBDA f : Sorel_extract_one(f, order[i], dstdir \o <<Name(order[i])>>)),
         order, dstdir, i + 1)

\* Sorel.extract: order is the order in which iterdir lists downloads.
Sorel_extract(fs, ds, ver, order) ==
  IF downloads_path \notin fs.dirs
    THEN Raise(fs, IF IsFile(fs, downloads_path) THEN "NotADirectoryError" ELSE "FileNotFoundError")
    ELSE Sorel_extract_loop(Ok(fs), order, extracted_path(ds, ver), 1)

\* -------------------------------------------------------------- VirusShare
\* VirusShare.extract: mkdir of the extracted path, then the raise.
VirusShare_extract(fs, ds, ver) ==
  LET r == Mkdir(fs, extracted_path(ds, ver), TRUE, TRUE)
  IN IF r.err # "none" THEN r ELSE [r EXCEPT !.err = "NotImplementedError"]

\* ---------------------------------------------------------------- Sleipnir
RECURSIVE Sleipnir_mkdirs(_, _)
Sleipnir_mkdirs(r, k) ==
  \* k = 1..6: train, train/benign, train/malicious, test, test/benign, test/malicious
  IF r.err # "none" \/ k > 6 THEN r
  ELSE LET split == IF k <= 3 THEN "train" ELSE "test"
           j == (k - 1) % 3
           p == IF j = 0 THEN processed_path \o <<split>>
                         ELSE processed_path \o <<split, Categories[j]>>
       IN Sleipnir_mkdirs(Then(r, LAMBDA f : Mkdir(f, p, FALSE, TRUE)), k + 1)

\* Sleipnir.process: perms[c] is the shuffle drawn for category c.
Sleipnir_process(fs, ds, ver, perms) ==
  LET r0 == Sleipnir_mkdirs(Ok(fs), 1)
      r1 == SplitInto(r0, extracted_path(ds, ver) \o <<Categories[1]>>, perms[1],
                      processed_path \o <<"train", Categories[1]>>,
                      processed_path \o <<"test", Categories[1]>>)
  IN SplitInto(r1, extracted_path(ds, ver) \o <<Categories[2]>>, perms[2],
               processed_path \o <<"train", Categories[2]>>,
               processed_path \o <<"test", Categories[2]>>)

\* ----------------------------------------------------------------- Windows
\* A posix path string is modelled as its sequence of tokens: "/" and the
\* components; datasets_path is "/" followed by one token.
datasets_posix == <<"/", "home/lk3591/Documents/datasets">>

RECURSIVE Slashed(_)
Slashed(p) == IF p = <<>> THEN <<>> ELSE <<"/", Head(p)>> \o Slashed(Tail(p))

\* Path.as_posix() of root / p
as_posix(ds, p) == datasets_posix \o <<"/", ds>> \o Slashed(p)

\* str.replace(sub, ""): every occurrence of sub removed, left to right
RECURSIVE StrRemove(_, _)
StrRemove(s, sub) ==
  IF Len(s) < Len(sub) \/ sub = <<>> THEN s
  ELSE IF SubSeq(s, 1, Len(sub)) = sub THEN StrRemove(SubSeq(s, Len(sub) + 1, Len(s)), sub)
  ELSE <<Head(s)>> \o StrRemove(Tail(s), sub)

\* hashlib.sha224(bytes).hexdigest(), modelled by a small digest of the same
\* shape: a fold over the whole input onto a fixed range of hex strings.
Tokens == <<"/", "home/lk3591/Documents/datasets", "Windows", "downloads", "extracted",
            "processed", "d1", "x.exe", "y.exe", "n.txt", "A", "B">>
TokenCode(t) == CHOOSE i \in 1..Len(Tokens) : Tokens[i] = t
HexPool == <<"h0", "h1", "h2", "h3", "h4", "h5", "h6", "h7">>
RECURSIVE Fold(_, _)
Fold(h, s) == IF s = <<>> THEN h ELSE Fold((h * 31 + TokenCode(Head(s))) % Len(HexPool), Tail(s))
sha224_hexdigest(s) == HexPool[Fold(5, s) + 1]

\* Path.with_suffix(".exe") of a name that has no suffix
ExePool == <<"h0.exe", "h1.exe", "h2.exe", "h3.exe", "h4.exe", "h5.exe", "h6.exe", "h7.exe">>
with_suffix_exe(stem) == ExePool[CHOOSE i \in 1..Len(HexPool) : HexPool[i] = stem]

\* fnmatch(name, "*.exe")
IsExe(n) == n \in {"x.exe", "y.exe"} \cup {ExePool[i] : i \in 1..Len(ExePool)}

\* the hash taken of the file's bytes instead of its path
Windows_target_by_content(fs, ds, ver, p) ==
  extracted_path(ds, ver) \o <<with_suffix_exe(sha224_hexdigest(<<fs.files[p]>>))>>

\* The target of one file p of the rglob loop: local_path, hash, target path.
\* fs, the filesystem at that iteration, is in scope and not read.
Windows_target(fs, ds, ver, p) ==
  LET local_path == StrRemove(as_posix(ds, p), as_posix(ds, extracted_path(ds, ver)))
      hash == sha224_hexdigest(Tail(local_path))
  IN extracted_path(ds, ver) \o <<with_suffix_exe(hash)>>

\* Path.replace(target) of a file
Replace(fs, p, target) ==
  IF ~IsFile(fs, p) THEN Raise(fs, "FileNotFoundError")
  ELSE IF target \in fs.dirs THEN Wrote(Raise(fs, "IsADirectoryError"), Parent(target), fs)
  ELSE IF Parent(target) \notin fs.dirs THEN Wrote(Raise(fs, "FileNotFoundError"), Parent(target), fs)
  ELSE Wrote(Ok(DropFile(PutFile(fs, target, fs.files[p]), p)), Parent(target), fs)

\* self.downloads_path.rglob("*.exe"): the inputs hold no directory named *.exe
Rglob_exe(fs) ==
  {q \in DOMAIN fs.files : IsPrefix(downloads_path, q) /\ q # downloads_path /\ IsExe(Name(q))}

RECURSIVE Windows_move_loop(_, _, _, _, _)
Windows_move_loop(r, ds, ver, order, i) ==
  IF r.err # "none" \/ i > Len(order) THEN r
  ELSE Windows_move_loop(
         Then(r, LAMBDA f : Replace(f, order[i], Windows_target(f, ds, ver, order[i]))),
         ds, ver, order, i + 1)

RECURSIVE Windows_rm_loop(_, _, _)
Windows_rm_loop(r, ord2, i) ==
  IF r.err # "none" \/ i > Len(ord2) THEN r
  ELSE Windows_rm_loop(Then(r, LAMBDA f : Rmtree(f, ord2[i])), ord2, i + 1)

\* Windows.extract up to the end of the first loop; order is rglob's order.
Windows_extract_moves(fs, ds, ver, order) ==
  Windows_move_loop(_setup(fs, ds, ver), ds, ver, order, 1)

\* Windows.extract; ord2 is the order in which iterdir lists what is left of
\* downloads after the first loop.
Windows_extract(fs, ds, ver, order, ord2) ==
  Windows_rm_loop(Windows_extract_moves(fs, ds, ver, order), ord2, 1)

\* -------------------------------------------------------------------- state
VARIABLES
  dataset,    \* main's dataset argument; the modelled root is datasets_path / dataset
  version,    \* main's version argument
  fs,         \* the filesystem under the root
  pc,         \* position in main: "idle", a phase, "done" or "error"
  flags,      \* main's clean / download / extract / process arguments
  invoked,    \* the phases main has invoked in this run, in order
  last,       \* the last call made and the exception it raised
  failure,    \* the first failure of this run and how many phases had been invoked
  writes,     \* the write attempts of the last phase
  named,      \* every renaming Windows.extract has done: the input path, the target
              \* name, the file's content, the other files of that run, the visit index
  hist,       \* calls on this root so far: process calls, and whether any other phase ran
  runs        \* invocations of main so far

vars == <<dataset, version, fs, pc, flags, invoked, last, failure, writes, named, hist, runs>>

NoFailure == [kind |-> "none", at |-> 0]
NoFlags == [ph \in Phases |-> FALSE]

\* Which code a profile runs for a phase: the class's own method or the
\* inherited base default.
Impl(ds, ph) ==
  CASE ds = "Sorel" ->
         (CASE ph = "clean" -> "_clean" [] ph = "download" -> "aws"
            [] ph = "extract" -> "zlib" [] ph = "process" -> "split")
    [] ds = "Windows" ->
         (CASE ph = "clean" -> "decline" [] ph = "download" -> "decline"
            [] ph = "extract" -> "hash" [] ph = "process" -> "split")
    [] ds = "VirusShare" ->
         (CASE ph = "clean" -> "_clean" [] ph = "download" -> "decline"
            [] ph = "extract" -> "mkdir_raise" [] ph = "process" -> "split")
    [] ds = "SLEIPNIR" ->
         (CASE ph = "clean" -> "_clean" [] ph = "download" -> "decline"
            [] ph = "extract" -> "decline" [] ph = "process" -> "categories")

\* remove_download argument of each profile's clean
RemoveDownload(ds) == ds = "Sorel"

\* The statement of main that follows the call of phase ph.
After(ph) ==
  LET i == CHOOSE k \in 1..Len(PhaseOrder) : PhaseOrder[k] = ph
  IN IF i = Len(PhaseOrder) THEN "done" ELSE PhaseOrder[i + 1]

\* ------------------------------------------------------------ initial states
NoFiles == [q \in {} |-> "A"]
Samples(dir, k) == {dir \o <<NamePool[i]>> : i \in 1..k}
FilesOf(S, c) == [q \in S |-> c]

\* Layouts of the root before the first run: any subset of the three fixed
\* subdirectories, k sample files in the extracted directory (per category
\* for the labelled profile), for one profile optionally a stray subdirectory among them.
\* Profiles whose extract adds files start with fewer, so that the extracted
\* directory holds at most MaxFiles files.
Layouts(ds, ver) ==
  LET kmax == IF ds \in {"Sorel", "Windows"} THEN MaxFiles - MaxBlobs ELSE MaxFiles
      ext == IF ds = "VirusShare" /\ ver = NoneV THEN <<"extracted">> ELSE extracted_path(ds, ver)
  IN IF ds \notin Registry THEN {[dirs |-> {<<>>}, files |-> NoFiles]}
     ELSE {[dirs |-> {}, files |-> NoFiles]} \cup
       UNION {
         IF ~e THEN {[dirs |-> {<<>>} \cup D, files |-> NoFiles]}
         ELSE IF ds = "SLEIPNIR"
           THEN {[dirs |-> {<<>>} \cup D \cup Prefixes(ext) \cup {ext \o <<Categories[1]>>, ext \o <<Categories[2]>>},
                  files |-> FilesOf(Samples(ext \o <<Categories[1]>>, kb)
                                    \cup Samples(ext \o <<Categories[2]>>, km), "A")]
                 : kb \in 0..MaxFiles, km \in {0, 2}}
           ELSE {[dirs |-> {<<>>} \cup D \cup Prefixes(ext) \cup (IF sub THEN {ext \o <<"sub">>} ELSE {}),
                  files |-> FilesOf(Samples(ext, k), "A")]
                 : k \in 0..kmax, sub \in (IF ds = "VirusShare" THEN BOOLEAN ELSE {FALSE})}
         : D \in SUBSET {downloads_path, processed_path}, e \in BOOLEAN}

Init ==
  /\ dataset \in DatasetArgs
  /\ version \in (IF dataset \in {"VirusShare", "Bogus"} THEN VersionArgs ELSE {NoneV})
  /\ fs \in Layouts(dataset, version)
  /\ pc = "idle"
  /\ flags = NoFlags
  /\ invoked = <<>>
  /\ last = [op |-> "none", err |-> "none"]
  /\ failure = NoFailure
  /\ writes = {}
  /\ named = {}
  /\ hist = [process |-> 0, other |-> FALSE]
  /\ runs = 0

\* --------------------------------------------------------------------- main
\* main, lines 170-178: a valid name, the manager constructed.
MainStart ==
  /\ pc \in {"idle", "done", "error"}
  /\ runs < MaxRuns
  /\ dataset \in Registry
  /\ ~(dataset = "VirusShare" /\ version = NoneV)
  /\ \E fl \in [Phases -> BOOLEAN] : flags' = fl
  /\ pc' = PhaseOrder[1]
  /\ invoked' = <<>>
  /\ last' = [op |-> "main", err |-> "none"]
  /\ failure' = NoFailure
  /\ writes' = {}
  /\ runs' = runs + 1
  /\ UNCHANGED <<dataset, version, fs, named, hist>>

\* main, lines 176-177: the name is not in the registry.
MainInvalidDataset ==
  /\ pc \in {"idle", "done", "error"}
  /\ runs < MaxRuns
  /\ dataset \notin Registry
  /\ \E fl \in [Phases -> BOOLEAN] : flags' = fl
  /\ pc' = "error"
  /\ invoked' = <<>>
  /\ last' = [op |-> "main", err |-> "ValueError"]
  /\ failure' = NoFailure
  /\ writes' = {}
  /\ runs' = runs + 1
  /\ UNCHANGED <<dataset, version, fs, named, hist>>

\* main, line 178 with VirusShare.__init__, line 122: extracted_path / None
\* raises TypeError.
MainConstructFails ==
  /\ pc \in {"idle", "done", "error"}
  /\ runs < MaxRuns
  /\ dataset = "VirusShare" /\ version = NoneV
  /\ \E fl \in [Phases -> BOOLEAN] : flags' = fl
  /\ pc' = "error"
  /\ invoked' = <<>>
  /\ last' = [op |-> "__init__", err |-> "TypeError"]
  /\ failure' = NoFailure
  /\ writes' = {}
  /\ runs' = runs + 1
  /\ UNCHANGED <<dataset, version, fs, named, hist>>

\* An `if flag:` of main whose flag is unset.
Skip ==
  /\ pc \in Phases
  /\ ~flags[pc]
  /\ pc' = After(pc)
  /\ UNCHANGED <<dataset, version, fs, flags, invoked, last, failure, writes, named, hist, runs>>

\* The bookkeeping of one phase call that ended with result r; kind names the
\* failure it stands for, "none" if it is no failure.
Called(ph, r, kind) ==
  /\ fs' = r.fs
  /\ writes' = r.w
  /\ last' = [op |-> ph, err |-> r.err]
  /\ invoked' = Append(invoked, ph)
  /\ pc' = IF r.err = "none" THEN After(ph) ELSE "error"
  /\ failure' = IF failure.kind = "none" /\ kind # "none"
                  THEN [kind |-> kind, at |-> Len(invoked) + 1] ELSE failure
  /\ hist' = IF ph = "process" THEN [hist EXCEPT !.process = @ + 1]
                               ELSE [hist EXCEPT !.other = TRUE]
  /\ UNCHANGED <<dataset, version, flags, runs>>

\* A phase the profile declines: the base default, or an override that only raises.
Decline ==
  /\ pc \in Phases /\ flags[pc]
  /\ Impl(dataset, pc) = "decline"
  /\ Called(pc, Raise(fs, "NotImplementedError"), "none")
  /\ UNCHANGED named

\* Sorel.clean, VirusShare.clean, Sleipnir.clean
Clean ==
  /\ pc = "clean" /\ flags[pc]
  /\ Impl(dataset, pc) = "_clean"
  /\ LET r == _clean(fs, dataset, version, RemoveDownload(dataset))
     IN Called(pc, r, IF r.err = "FileNotFoundError" THEN "missing_dir" ELSE "none")
  /\ UNCHANGED named

\* Sorel.download
SorelDownload ==
  /\ pc = "download" /\ flags[pc]
  /\ Impl(dataset, pc) = "aws"
  /\ \E outcome \in {"ok", "nonzero", "noexec"}, n \in 0..MaxBlobs :
       \E bad \in 0..n :
         /\ outcome # "ok" => n = 0
         /\ Called(pc, Sorel_download(fs, outcome, n, bad),
                   IF outcome = "ok" THEN "none" ELSE "subprocess")
  /\ UNCHANGED named

\* Sorel.extract
SorelExtract ==
  /\ pc = "extract" /\ flags[pc]
  /\ Impl(dataset, pc) = "zlib"
  /\ \E order \in Perms(Children(fs, downloads_path)) :
       LET r == Sorel_extract(fs, dataset, version, order)
       IN Called(pc, r, IF r.err = "zlib.error" THEN "corrupt" ELSE "none")
  /\ UNCHANGED named

\* VirusShare.extract
VirusShareExtract ==
  /\ pc = "extract" /\ flags[pc]
  /\ Impl(dataset, pc) = "mkdir_raise"
  /\ Called(pc, VirusShare_extract(fs, dataset, version), "none")
  /\ UNCHANGED named

\* Windows.extract
WindowsExtract ==
  /\ pc = "extract" /\ flags[pc]
  /\ Impl(dataset, pc) = "hash"
  /\ \E order \in Perms(Rglob_exe(fs)) :
       \E ord2 \in Perms(Children(Windows_extract_moves(fs, dataset, version, order).fs,
                                  downloads_path)) :
         /\ Called(pc, Windows_extract(fs, dataset, version, order, ord2), "none")
         /\ named' = named \cup
              {[path |-> order[i],
                name |-> Name(Windows_target(fs, dataset, version, order[i])),
                content |-> fs.files[order[i]],
                peers |-> Rglob_exe(fs) \ {order[i]},
                idx |-> i] : i \in 1..Len(order)}

\* Sorel.process, Windows.process, VirusShare.process
Process ==
  /\ pc = "process" /\ flags[pc]
  /\ Impl(dataset, pc) = "split"
  /\ \E perm \in Perms(Children(fs, extracted_path(dataset, version))) :
       Called(pc, _process_into_train_test_split(fs, dataset, version, perm), "none")
  /\ UNCHANGED named

\* Sleipnir.process
SleipnirProcess ==
  /\ pc = "process" /\ flags[pc]
  /\ Impl(dataset, pc) = "categories"
  /\ \E p1 \in Perms(Children(fs, extracted_path(dataset, version) \o <<Categories[1]>>)) :
       \E p2 \in Perms(Children(fs, extracted_path(dataset, version) \o <<Categories[2]>>)) :
         Called(pc, Sleipnir_process(fs, dataset, version, <<p1, p2>>), "none")
  /\ UNCHANGED named

\* The manual step of Windows.download's comment: between runs the operator
\* copies executables (and whatever lies beside them) into an empty downloads.
WinPool == <<downloads_path \o <<"d1", "x.exe">>, downloads_path \o <<"y.exe">>,
             downloads_path \o <<"n.txt">>>>
OperatorCopy ==
  /\ pc \in {"idle", "done", "error"}
  /\ runs < MaxRuns
  /\ dataset = "Windows"
  /\ \A q \in DOMAIN fs.files : ~IsPrefix(downloads_path, q)
  /\ \E S \in SUBSET {WinPool[i] : i \in 1..Len(WinPool)}, c \in {"A", "B"} :
       /\ S # {} /\ Cardinality(S) <= MaxBlobs
       /\ fs' = [dirs |-> fs.dirs \cup UNION {Prefixes(Parent(q)) : q \in S},
                 files |-> [q \in DOMAIN fs.files \cup S |-> IF q \in S THEN c ELSE fs.files[q]]]
  /\ UNCHANGED <<dataset, version, pc, flags, invoked, last, failure, writes, named, hist, runs>>

Next ==
  \/ MainStart
  \/ MainInvalidDataset
  \/ MainConstructFails
  \/ Skip
  \/ Decline
  \/ Clean
  \/ SorelDownload
  \/ SorelExtract
  \/ VirusShareExtract
  \/ WindowsExtract
  \/ Process
  \/ SleipnirProcess
  \/ OperatorCopy

Spec == Init /\ [][Next]_vars

\* ------------------------------------------------------------------- claims
FileNames(dir) == {Name(q) : q \in {x \in DOMAIN fs.files : Parent(x) = dir}}
TrainDir == <<"processed", "train">>
TestDir == <<"processed", "test">>
ExtractedNow == IF dataset = "VirusShare" THEN <<"extracted", version>> ELSE <<"extracted">>
FixedOrder == <<"clean", "download", "extract", "process">>
Flagged == SelectSeq(FixedOrder, LAMBDA ph : flags[ph])
Pos(ph) == CHOOSE k \in 1..4 : FixedOrder[k] = ph
Ceil4(n) == CHOOSE c \in 0..n : 4 * c >= n /\ 4 * (c - 1) < n

\* The first process() call on this root has just returned normally, for a
\* profile that uses the shared split, over an extracted directory that holds
\* only files; train and test held nothing before it.
FirstSharedSplitDone ==
  /\ dataset \in {"Sorel", "Windows", "VirusShare"}
  /\ last = [op |-> "process", err |-> "none"]
  /\ hist.process = 1
  /\ Children(fs, ExtractedNow) \subseteq DOMAIN fs.files
  /\ Cardinality(Children(fs, ExtractedNow)) >= 2

\* C1: after one process() call over N >= 2 extracted files, with train and
\* test empty before, the names in processed/train and processed/test are
\* together exactly the N extracted names, none in both.
C1_UnionIsAll ==
  FirstSharedSplitDone =>
    /\ FileNames(TrainDir) \cup FileNames(TestDir) = FileNames(ExtractedNow)
    /\ FileNames(TrainDir) \cap FileNames(TestDir) = {}

\* C7: after one process() call over N >= 2 extracted files, processed/test
\* holds ceil(N/4) files and processed/train holds N - ceil(N/4).
C7_SplitSizes ==
  FirstSharedSplitDone =>
    LET n == Cardinality(FileNames(ExtractedNow)) IN
    /\ Cardinality(FileNames(TestDir)) = Ceil4(n)
    /\ Cardinality(FileNames(TrainDir)) = n - Ceil4(n)

\* C10: as long as only process() has been called on the root (the extracted
\* directory unchanged, no clean), no file name is in both processed/train
\* and processed/test.
C10_NeverInBoth ==
  ~hist.other => FileNames(TrainDir) \cap FileNames(TestDir) = {}

\* C5: every write a phase attempts goes into a directory that exists at
\* that moment.
C5_DirExistsBeforeWrite ==
  \A x \in writes : x.existed

\* C6: once a run has met one of the failures (clean deleting a missing
\* directory, the cloud CLI failing, extract reading a corrupt file), no
\* further phase is invoked in that run.
C6_FailureEndsRun ==
  failure.kind # "none" => Len(invoked) = failure.at

\* The (profile, operation) pairs that decline by NotImplementedError.
C2Pairs == {<<"Windows", "clean">>, <<"Windows", "download">>, <<"VirusShare", "download">>,
            <<"SLEIPNIR", "download">>, <<"SLEIPNIR", "extract">>, <<"VirusShare", "extract">>}

\* C2: a (profile, operation) pair that declines raises NotImplementedError
\* and leaves the filesystem as it was.
C2_DeclineTouchesNothing ==
  [][(pc \in Phases /\ flags[pc] /\ <<dataset, pc>> \in C2Pairs)
       => (last'.err = "NotImplementedError" /\ fs' = fs)]_vars

\* C3 as first stated: after clean() returns normally, <root>/extracted and
\* <root>/processed do not exist, nor <root>/downloads for Sorel.
C3_RootExtractedGone ==
  last = [op |-> "clean", err |-> "none"] =>
    /\ <<"extracted">> \notin fs.dirs
    /\ <<"processed">> \notin fs.dirs
    /\ dataset = "Sorel" => <<"downloads">> \notin fs.dirs

\* C3 (amended): after clean() returns normally, the profile's own extracted
\* path (<root>/extracted/<version> for VirusShare, whose <root>/extracted
\* stays) and <root>/processed do not exist, nor <root>/downloads for Sorel.
C3_CleanRemoves ==
  last = [op |-> "clean", err |-> "none"] =>
    /\ ExtractedNow \notin fs.dirs
    /\ \A q \in DOMAIN fs.files : ~IsPrefix(ExtractedNow, q)
    /\ <<"processed">> \notin fs.dirs
    /\ dataset = "Sorel" => <<"downloads">> \notin fs.dirs
    /\ dataset = "VirusShare" => <<"extracted">> \in fs.dirs

C3_Witness ==
  /\ last = [op |-> "clean", err |-> "none"]
  /\ dataset = "VirusShare"
  /\ <<"extracted">> \in fs.dirs /\ <<"downloads">> \in fs.dirs

\* C4 as first stated: for a valid name, a finished run has invoked exactly
\* the flagged phases, in the fixed order; for a name outside the registry
\* the run ends with ValueError and no phase invoked.
C4_ExactlyFlagged ==
  /\ (dataset \in Registry /\ pc \in {"done", "error"}) => invoked = Flagged
  /\ (dataset \notin Registry /\ pc # "idle") =>
       pc = "error" /\ invoked = <<>> /\ last.err = "ValueError"

\* C4 (amended): for a valid name main invokes the flagged phases in the
\* order clean, download, extract, process, never an unflagged one and none
\* twice, up to and including the first that raises; all of them when none
\* raises; none when the manager's construction raises. For a name outside
\* the registry it raises ValueError before any phase.
C4_OrderedUntilRaise ==
  /\ (dataset \in Registry /\ pc \in Phases) =>
       invoked = SelectSeq(FixedOrder, LAMBDA ph : flags[ph] /\ Pos(ph) < Pos(pc))
  /\ (dataset \in Registry /\ pc = "done") => invoked = Flagged
  /\ (dataset \in Registry /\ pc = "error") =>
       /\ Len(invoked) <= Len(Flagged) /\ invoked = SubSeq(Flagged, 1, Len(invoked))
       /\ last.err # "none"
       /\ IF invoked = <<>> THEN last.op = "__init__" ELSE last.op = invoked[Len(invoked)]
  /\ (dataset \notin Registry /\ pc # "idle") =>
       pc = "error" /\ invoked = <<>> /\ last = [op |-> "main", err |-> "ValueError"]

C4_Witness ==
  /\ dataset \in Registry /\ pc = "error"
  /\ Len(invoked) = 2 /\ Len(Flagged) > 2

\* q lies under processed/
InProcessed(q) == Len(q) > 1 /\ q[1] = "processed"

\* C8: a process() call, whether it returns or raises, leaves every directory
\* and file outside processed/ as it was, contents included, and creates
\* nothing outside processed/.
C8_ProcessOnlyAddsUnderProcessed ==
  [][(pc = "process" /\ flags[pc]) =>
       /\ {d \in fs'.dirs : ~InProcessed(d)} = {d \in fs.dirs : ~InProcessed(d)}
       /\ {q \in DOMAIN fs'.files : ~InProcessed(q)} = {q \in DOMAIN fs.files : ~InProcessed(q)}
       /\ \A q \in DOMAIN fs.files : ~InProcessed(q) => fs'.files[q] = fs.files[q]]_vars

C8_Witness ==
  /\ last.op = "process"
  /\ \E q \in DOMAIN fs.files : InProcessed(q)
  /\ Children(fs, ExtractedNow) # {}

\* C9: whatever the content, the other files and the visit order, every
\* renaming Windows.extract does of one input path gives the same target name.
C9_NameByPathAlone ==
  \A x, y \in named : x.path = y.path => x.name = y.name

C9_Witness ==
  \E x, y \in named :
    /\ x.path = y.path
    /\ x.content # y.content /\ x.peers # y.peers /\ x.idx # y.idx

====
